---- MODULE Spec2Model ----
(***************************************************************************)
(* Model of the LinkedIn OAuth client of mcp-linkedin:                     *)
(* LinkedInOAuthClient (src/src/mcp_linkedin/client.py, duplicated in      *)
(* src/main.py): bearer headers, refresh_access_token, _make_request with  *)
(* its refresh-and-retry path, and get_profile; and of the tools built on  *)
(* it in the three servers of the repository: src/src/mcp_linkedin/tools.py*)
(* and src/src/mcp_linkedin/main.py (one client per process, get_client)   *)
(* and src/main.py (one client per call, built from the inbound headers).  *)
(*                                                                         *)
(* A caller (a tool invocation) is a process p.  Every network call is a   *)
(* point where the caller waits for the server, so each operation is cut   *)
(* at its network calls: one action issues the call, the next one takes    *)
(* the server's answer (drawn from a small set) and runs the code up to    *)
(* the next call or the return.                                            *)
(*                                                                         *)
(* The OAuth helper script (src/src/mcp_linkedin/oauth_helper.py) is a     *)
(* program of its own: save_tokens_to_env and the file it rewrites are     *)
(* checked under SpecSave.                                                 *)
(***************************************************************************)
EXTENDS Integers, Sequences, FiniteSets, TLC

VARIABLES access_token, refresh_token, client_id, client_secret,
          pc, op, kwargs, calls, resps, result, pre,
          server, env, instances, registered, tool,
          env_file, saved

vars == <<access_token, refresh_token, client_id, client_secret,
          pc, op, kwargs, calls, resps, result, pre,
          server, env, instances, registered, tool,
          env_file, saved>>

\* the file of the OAuth helper and the record of what was saved to it
helper == <<env_file, saved>>

\* what the client's operations leave alone
above == <<server, env, instances, registered, tool>>

creds == <<access_token, refresh_token, client_id, client_secret>>

(***************************************************************************)
(* Bounds                                                                  *)
(***************************************************************************)
\* number of callers (tool invocations follow one another in Spec)
NumProcs == 2
\* number of distinct non-empty access tokens / refresh tokens
NumTokens == 2

Procs == 1..NumProcs

(***************************************************************************)
(* Values                                                                  *)
(***************************************************************************)
\* Python's None, and a key that a JSON object does not have
None == "<None>"
Absent == "<absent>"

AccessTokens == {"at" \o ToString(i) : i \in 1..NumTokens}
RefreshTokens == {"rt" \o ToString(i) : i \in 1..NumTokens}

\* os.getenv gives None or a string, possibly the empty one; the tokens of
\* the environment are the first ones, later ones come from the token endpoint
EnvAccess == {None, "", "at1"}
EnvRefresh == {None, "", "rt1"}
EnvClientId == {None, "cid"}
EnvClientSecret == {"", "secret"}

\* a truthiness test that lets the empty string through
Falsy_NoneOnly(v) == v = None

\* Python truthiness of an Optional[str]
Falsy(v) == v \in {None, ""}

\* {**a, **b} and a.update(b): the keys of b win
DictUpdate(a, b) == b @@ a

\* dict.get(key) on a JSON object whose key may be missing
DictGet(v) == IF v = Absent THEN None ELSE v

(***************************************************************************)
(* Server answers.  status 0 stands for a call that raised at the          *)
(* transport level (no response); kind tells how the body decodes.         *)
(***************************************************************************)
Resp(s, k, a, r) ==
    [status |-> s, kind |-> k, at |-> a, rt |-> r, sub |-> Absent]

\* a userinfo answer whose JSON object has the key "sub"
ProfileResp(s, sub) == [Resp(s, "dict", Absent, Absent) EXCEPT !.sub = sub]

ProfileSubs == {"sub1"}

NoResp == Resp(-1, "none", Absent, Absent)
TransportFailure == Resp(0, "none", Absent, Absent)

ApiStatuses == {200, 201, 401, 403, 500}

ApiOutcomes ==
    {TransportFailure, Resp(200, "undecodable", Absent, Absent),
     Resp(200, "nondict", Absent, Absent)}
    \cup {Resp(s, "dict", Absent, Absent) : s \in ApiStatuses}
    \cup {ProfileResp(200, v) : v \in ProfileSubs}

TokenOutcomes ==
    {TransportFailure}
    \cup {Resp(s, "text", Absent, Absent) : s \in {400, 401, 500}}
    \cup {Resp(200, k, Absent, Absent) : k \in {"undecodable", "nondict"}}
    \cup {Resp(200, "dict", a, r) :
            a \in {Absent, None, ""} \cup AccessTokens,
            r \in {Absent, None} \cup RefreshTokens}

(***************************************************************************)
(* LinkedInOAuthClient                                                     *)
(***************************************************************************)
base_url == "https://api.linkedin.com"
token_url == "https://www.linkedin.com/oauth/v2/accessToken"

\* _setup_session: the session's default headers
SessionHeaders ==
    ("User-Agent" :> "LinkedIn-MCP-Tool/1.0")
    @@ ("Accept" :> "application/json")
    @@ ("Content-Type" :> "text/plain")
    @@ ("X-Restli-Protocol-Version" :> "2.0.0")
    @@ ("LinkedIn-Version" :> "X-Restli-Protocol-Version")

\* the header without its scheme
AuthHeaders_NoScheme(tok) == ("Authorization" :> tok)

\* _get_auth_headers, for a token that passed the `not self.access_token` test
AuthHeaders(tok) == ("Authorization" :> ("Bearer " \o tok))

\* headers = {**self.session.headers, **self._get_auth_headers()}
\* if "headers" in kwargs: headers.update(kwargs["headers"])
RequestHeaders(tok, kw) ==
    LET headers == DictUpdate(SessionHeaders, AuthHeaders(tok))
    IN IF "headers" \in DOMAIN kw
          THEN DictUpdate(headers, kw["headers"])
          ELSE headers

\* kwargs["headers"] = headers
SetHeaders(kw, headers) == ("headers" :> headers) @@ kw

\* self.session.request(method, url, **kwargs)
ApiCall(method, url, headers, data) ==
    [to |-> "api", method |-> method, url |-> url, headers |-> headers,
     data |-> data]

\* a guard that forgets the client credentials
RefreshReady_TokenOnly(rt, cid, cs) == ~Falsy(rt)

\* refresh_access_token: the guard on the three credentials
RefreshReady(rt, cid, cs) == ~Falsy(rt) /\ ~Falsy(cid) /\ ~Falsy(cs)

\* refresh_access_token: the POST to the token endpoint
TokenCall(rt, cid, cs) ==
    [to |-> "token", method |-> "POST", url |-> token_url,
     headers |-> ("Content-Type" :> "application/x-www-form-urlencoded"),
     data |-> [grant_type |-> "refresh_token", refresh_token |-> rt,
               client_id |-> cid, client_secret |-> cs]]

\* a refresh that is also tried on 403
NeedsRefresh_Forbidden(r) == r.status \in {401, 403}

\* _make_request: if response.status_code == 401
NeedsRefresh(r) == r.status = 401

\* a refresh that takes any response for a success
RefreshSucceeds_AnyResponse(r) == r.status # 0

\* refresh_access_token: True exactly for a 200 whose body decodes to an object
RefreshSucceeds(r) == r.status = 200 /\ r.kind = "dict"

\* an assignment made on the status alone, before the body is decoded
RefreshedAccess_BeforeDecode(r, old) ==
    IF r.status = 200 THEN DictGet(r.at) ELSE old

\* self.access_token = token_data.get("access_token")
RefreshedAccess(r, old) == IF RefreshSucceeds(r) THEN DictGet(r.at) ELSE old

\* a refresh token overwritten with token_data.get("refresh_token")
RefreshedRefresh_Always(r, old) ==
    IF RefreshSucceeds(r) THEN DictGet(r.rt) ELSE old

\* if "refresh_token" in token_data: self.refresh_token = token_data["refresh_token"]
RefreshedRefresh(r, old) ==
    IF RefreshSucceeds(r) /\ r.rt # Absent THEN r.rt ELSE old

(***************************************************************************)
(* Results handed to the caller                                            *)
(***************************************************************************)
NoResult == [kind |-> "none", resp |-> NoResp, val |-> FALSE, err |-> ""]
Returned(r) == [kind |-> "response", resp |-> r, val |-> FALSE, err |-> ""]
ReturnedBool(b) == [kind |-> "bool", resp |-> NoResp, val |-> b, err |-> ""]
ReturnedJson(r) == [kind |-> "json", resp |-> r, val |-> FALSE, err |-> ""]
Raised(e) == [kind |-> "raise", resp |-> NoResp, val |-> FALSE, err |-> e]

ErrNoToken == "ValueError: No access token available. Please authenticate first."
ErrRefresh == "Exception: Failed to refresh access token"
ErrTransport == "requests.exceptions.ConnectionError"
ErrDecode == "requests.exceptions.JSONDecodeError"
ErrForbidden == "Exception: Profile access forbidden. Please ensure your LinkedIn app has the 'r_basicprofile' or 'profile' scope."
ErrUnauthorized == "Exception: Unauthorized. Please check your access token or refresh it."
ErrProfileApi == "Exception: Profile API error"

(***************************************************************************)
(* The servers and their tools                                             *)
(***************************************************************************)
\* "tools": src/src/mcp_linkedin/tools.py, "pkg": src/src/mcp_linkedin/main.py,
\* "hdr": src/main.py
Servers == {"tools", "pkg", "hdr"}

\* modules that all leave refresh_token unregistered
Decorators_NoRefresh(srv) == <<"get_profile_info", "create_post">>

\* the @mcp.tool functions of each module, in the order they are defined
Decorators(srv) ==
    IF srv = "tools"
       THEN <<"get_profile_info", "refresh_token", "create_post">>
       ELSE <<"get_profile_info", "create_post">>

\* a parameter left out by the caller takes its default
Param(v, default) == IF v = Absent THEN default ELSE v

NoArgs == [author |-> Absent, commentary |-> Absent, visibility |-> Absent,
           feed_distribution |-> Absent]

PostArgsOf(a, c, v, f) ==
    [author |-> a, commentary |-> c, visibility |-> v, feed_distribution |-> f]

\* create_post(author, commentary, visibility, feed_distribution) of tools.py
AuthorPostArgs ==
    {PostArgsOf("urn:li:person:1", "hello", Absent, Absent),
     PostArgsOf("urn:li:organization:2", "bye", "CONNECTIONS", "NONE")}

\* create_post(commentary, visibility, feed_distribution) of the two main.py
PlainPostArgs ==
    {PostArgsOf(Absent, "hello", Absent, Absent),
     PostArgsOf(Absent, "bye", "CONNECTIONS", "NONE")}

\* a post_data that always goes to the main feed
PostData_MainFeedOnly(author, args, reshare) ==
    [author |-> author,
     commentary |-> args.commentary,
     visibility |-> Param(args.visibility, "PUBLIC"),
     distribution |->
         [feedDistribution |-> "MAIN_FEED",
          targetEntities |-> <<>>,
          thirdPartyDistributionChannels |-> <<>>],
     lifecycleState |-> "PUBLISHED",
     isReshareDisabledByAuthor |-> reshare]

\* post_data; isReshareDisabledByAuthor is False in tools.py, True in main.py
PostData(author, args, reshare) ==
    [author |-> author,
     commentary |-> args.commentary,
     visibility |-> Param(args.visibility, "PUBLIC"),
     distribution |->
         [feedDistribution |-> Param(args.feed_distribution, "MAIN_FEED"),
          targetEntities |-> <<>>,
          thirdPartyDistributionChannels |-> <<>>],
     lifecycleState |-> "PUBLISHED",
     isReshareDisabledByAuthor |-> reshare]

\* author = "urn:li:person:" + author_id
PersonUrn(author_id) == "urn:li:person:" \o author_id

\* the inbound headers the tools of src/main.py look at
GoodHeaders ==
    [linkedin_client_id |-> "hcid", linkedin_client_secret |-> "hsecret",
     linkedin_access_token |-> "at2", linkedin_refresh_token |-> "rt2"]

\* all four headers sent, or one of them left out or sent empty
InboundHeaders ==
    {GoodHeaders}
    \cup {[GoodHeaders EXCEPT ![k] = v] :
             k \in DOMAIN GoodHeaders, v \in {Absent, ""}}

NoHeaders == [linkedin_client_id |-> Absent, linkedin_client_secret |-> Absent,
              linkedin_access_token |-> Absent,
              linkedin_refresh_token |-> Absent]

\* the text a tool returns, as the fragments it is put together from
NoOut == [kind |-> "none", text |-> <<>>]
Text(fragments) == [kind |-> "string", text |-> fragments]
Escaped(e) == [kind |-> "raise", text |-> <<e>>]

NoTool == [name |-> "none", stage |-> "none", args |-> NoArgs,
           hdrs |-> NoHeaders, built |-> FALSE, author |-> Absent,
           log |-> <<>>, out |-> NoOut]

Snapshot == [access_token |-> access_token, refresh_token |-> refresh_token,
             client_id |-> client_id, client_secret |-> client_secret]

\* the environments src/main.py is started in: the client id and secret
\* always come from the headers there
HdrEnvs ==
    {[access_token |-> None, refresh_token |-> None,
      client_id |-> None, client_secret |-> ""],
     [access_token |-> "at1", refresh_token |-> "rt1",
      client_id |-> None, client_secret |-> ""]}

InitServers ==
    /\ access_token \in EnvAccess
    /\ refresh_token \in EnvRefresh
    /\ client_id \in EnvClientId
    /\ client_secret \in EnvClientSecret
    /\ pc = [p \in Procs |-> "idle"]
    /\ op = [p \in Procs |-> "none"]
    /\ kwargs = [p \in Procs |-> <<>>]
    /\ calls = [p \in Procs |-> <<>>]
    /\ resps = [p \in Procs |-> <<>>]
    /\ result = [p \in Procs |-> NoResult]
    /\ pre = [p \in Procs |-> Snapshot]
    /\ server \in Servers
    /\ env = Snapshot
    /\ server = "hdr" => env \in HdrEnvs
    /\ instances = 0
    /\ registered = {}
    /\ tool = [p \in Procs |-> NoTool]

\* no other caller is inside an operation
Quiescent(p) == \A q \in Procs \ {p} : pc[q] = "idle"

Finish(p, res) ==
    /\ pc' = [pc EXCEPT ![p] = "done"]
    /\ result' = [result EXCEPT ![p] = res]

Issue(p, call, label) ==
    /\ calls' = [calls EXCEPT ![p] = Append(@, call)]
    /\ pc' = [pc EXCEPT ![p] = label]
    /\ UNCHANGED result

Enter(p, name) ==
    /\ pc[p] = "idle"
    /\ op' = [op EXCEPT ![p] = name]
    /\ pre' = [pre EXCEPT ![p] = Snapshot]
    /\ UNCHANGED resps

Receive(p, r) ==
    /\ resps' = [resps EXCEPT ![p] = Append(@, r)]
    /\ UNCHANGED <<op, pre>>

(***************************************************************************)
(* _make_request (client.py) / make_request (main.py)                      *)
(***************************************************************************)
Endpoints == {"/posts", "/v2/posts"}
Payloads ==
    {PostData(a.author, a, FALSE) : a \in AuthorPostArgs}
    \cup {PostData(PersonUrn(v), a, TRUE) : v \in ProfileSubs, a \in PlainPostArgs}

\* entry up to the first session.request: the bearer header is built before
\* the try block, so a missing token raises ValueError with no call made
make_request_begin(p) ==
    /\ Enter(p, "request")
    /\ \E endpoint \in Endpoints, payload \in Payloads :
          LET kw == ("json" :> payload) IN
          IF Falsy(access_token)
             THEN /\ Finish(p, Raised(ErrNoToken))
                  /\ UNCHANGED <<kwargs, calls>>
             ELSE LET headers == RequestHeaders(access_token, kw) IN
                  /\ kwargs' = [kwargs EXCEPT ![p] = SetHeaders(kw, headers)]
                  /\ Issue(p, ApiCall("POST", base_url \o endpoint, headers, kw),
                           "api1")
    /\ UNCHANGED creds

\* the first response: returned unless it is a 401; on 401 refresh_access_token
\* runs up to its POST (or returns False at once, and the request raises)
make_request_response(p) ==
    /\ pc[p] = "api1"
    /\ op[p] = "request"
    /\ \E r \in ApiOutcomes :
          /\ Receive(p, r)
          /\ IF r = TransportFailure
                THEN Finish(p, Raised(ErrTransport)) /\ UNCHANGED calls
                ELSE IF ~NeedsRefresh(r)
                THEN Finish(p, Returned(r)) /\ UNCHANGED calls
                ELSE IF ~RefreshReady(refresh_token, client_id, client_secret)
                THEN Finish(p, Raised(ErrRefresh)) /\ UNCHANGED calls
                ELSE Issue(p, TokenCall(refresh_token, client_id, client_secret),
                           "token")
    /\ UNCHANGED <<creds, kwargs>>

\* the token endpoint's answer inside a request: refresh_access_token ends,
\* and on True the headers are rebuilt and the original call is repeated
make_request_refreshed(p) ==
    /\ pc[p] = "token"
    /\ op[p] = "request"
    /\ \E r \in TokenOutcomes :
          /\ Receive(p, r)
          /\ access_token' = RefreshedAccess(r, access_token)
          /\ refresh_token' = RefreshedRefresh(r, refresh_token)
          /\ IF ~RefreshSucceeds(r)
                THEN Finish(p, Raised(ErrRefresh)) /\ UNCHANGED <<kwargs, calls>>
                ELSE IF Falsy(access_token')
                THEN Finish(p, Raised(ErrNoToken)) /\ UNCHANGED <<kwargs, calls>>
                ELSE LET headers == RequestHeaders(access_token', kwargs[p])
                         first == calls[p][1]
                     IN /\ kwargs' = [kwargs EXCEPT
                                         ![p] = SetHeaders(@, headers)]
                        /\ Issue(p, ApiCall(first.method, first.url, headers,
                                            first.data), "api2")
    /\ UNCHANGED <<client_id, client_secret>>

\* a retry whose 401 starts the refresh again
make_request_retried_Again(p) ==
    /\ pc[p] = "api2"
    /\ op[p] = "request"
    /\ \E r \in ApiOutcomes :
          /\ Receive(p, r)
          /\ IF r = TransportFailure
                THEN Finish(p, Raised(ErrTransport)) /\ UNCHANGED calls
                ELSE IF NeedsRefresh(r)
                        /\ RefreshReady(refresh_token, client_id, client_secret)
                THEN Issue(p, TokenCall(refresh_token, client_id, client_secret),
                           "token")
                ELSE Finish(p, Returned(r)) /\ UNCHANGED calls
    /\ UNCHANGED <<creds, kwargs>>

\* the answer to the repeated call is returned whatever its status
make_request_retried(p) ==
    /\ pc[p] = "api2"
    /\ op[p] = "request"
    /\ \E r \in ApiOutcomes :
          /\ Receive(p, r)
          /\ IF r = TransportFailure
                THEN Finish(p, Raised(ErrTransport))
                ELSE Finish(p, Returned(r))
    /\ UNCHANGED <<creds, kwargs, calls>>

(***************************************************************************)
(* refresh_access_token called on its own (the refresh_token tool)         *)
(***************************************************************************)
refresh_begin(p) ==
    /\ Enter(p, "refresh")
    /\ IF ~RefreshReady(refresh_token, client_id, client_secret)
          THEN Finish(p, ReturnedBool(FALSE)) /\ UNCHANGED calls
          ELSE Issue(p, TokenCall(refresh_token, client_id, client_secret),
                     "token")
    /\ UNCHANGED <<creds, kwargs>>

refresh_response(p) ==
    /\ pc[p] = "token"
    /\ op[p] = "refresh"
    /\ \E r \in TokenOutcomes :
          /\ Receive(p, r)
          /\ access_token' = RefreshedAccess(r, access_token)
          /\ refresh_token' = RefreshedRefresh(r, refresh_token)
          /\ Finish(p, ReturnedBool(RefreshSucceeds(r)))
    /\ UNCHANGED <<client_id, client_secret, kwargs, calls>>

(***************************************************************************)
(* get_profile                                                             *)
(***************************************************************************)
ProfileFields == {None, "id"}

ProfileEndpoint(fields) ==
    IF Falsy(fields) THEN "/v2/userinfo" ELSE "/v2/userinfo?fields=" \o fields

\* an except clause without its 401 branch
ProfileError_No401(status) ==
    IF status = 403 THEN ErrForbidden ELSE ErrProfileApi

\* the except clause of get_profile: the message for an HTTPError
ProfileError(status) ==
    IF status = 403 THEN ErrForbidden
    ELSE IF status = 401 THEN ErrUnauthorized
    ELSE ErrProfileApi

\* response.raise_for_status()
IsHttpError(r) == r.status >= 400 /\ r.status < 600

get_profile_begin(p) ==
    /\ Enter(p, "get_profile")
    /\ \E fields \in ProfileFields :
          IF Falsy(access_token)
             THEN Finish(p, Raised(ErrNoToken)) /\ UNCHANGED calls
             ELSE Issue(p, ApiCall("GET",
                                   "https://api.linkedin.com"
                                       \o ProfileEndpoint(fields),
                                   DictUpdate(SessionHeaders,
                                              AuthHeaders(access_token)),
                                   <<>>),
                        "api1")
    /\ UNCHANGED <<creds, kwargs>>

get_profile_response(p) ==
    /\ pc[p] = "api1"
    /\ op[p] = "get_profile"
    /\ \E r \in ApiOutcomes :
          /\ Receive(p, r)
          /\ IF r = TransportFailure
                THEN Finish(p, Raised(ErrTransport))
                ELSE IF IsHttpError(r)
                THEN Finish(p, Raised(ProfileError(r.status)))
                ELSE IF r.kind = "undecodable"
                THEN Finish(p, Raised(ErrDecode))
                ELSE Finish(p, ReturnedJson(r))
    /\ UNCHANGED <<creds, kwargs, calls>>

(***************************************************************************)
(* The caller takes the result; the operation's locals are gone            *)
(***************************************************************************)
Return(p) ==
    /\ pc[p] = "done"
    /\ pc' = [pc EXCEPT ![p] = "idle"]
    /\ op' = [op EXCEPT ![p] = "none"]
    /\ kwargs' = [kwargs EXCEPT ![p] = <<>>]
    /\ calls' = [calls EXCEPT ![p] = <<>>]
    /\ resps' = [resps EXCEPT ![p] = <<>>]
    /\ result' = [result EXCEPT ![p] = NoResult]
    /\ pre' = [pre EXCEPT ![p] = env]
    /\ UNCHANGED creds

(***************************************************************************)
(* Tool registration and dispatch                                          *)
(***************************************************************************)
\* one @mcp.tool decorator runs, in the order of the module
register_tool ==
    /\ Cardinality(registered) < Len(Decorators(server))
    /\ registered' =
          registered \cup {Decorators(server)[Cardinality(registered) + 1]}
    /\ UNCHANGED <<creds, pc, op, kwargs, calls, resps, result, pre,
                   server, env, instances, tool>>

\* the module is imported: mcp.run() serves the registered tools
Serving == Cardinality(registered) = Len(Decorators(server))

\* no other tool invocation is under way
NoOtherTool(p) == \A q \in Procs \ {p} : tool[q].name = "none"

\* the framework can call a registered tool
CanInvoke(p, name) ==
    /\ Serving
    /\ name \in registered
    /\ tool[p].name = "none"

\* a tool invocation at its start, about to run `stage`
Started(name, stage, args, hdrs) ==
    [NoTool EXCEPT !.name = name, !.stage = stage, !.args = args, !.hdrs = hdrs]

Invoke(p, name, stage, args, hdrs) ==
    /\ CanInvoke(p, name)
    /\ tool' = [tool EXCEPT ![p] = Started(name, stage, args, hdrs)]

\* what the tool keeps of a finished client operation
LogEntry(p) ==
    [op |-> op[p],
     sent |-> [i \in 1..Len(calls[p]) |-> calls[p][i].to],
     got |-> IF op[p] = "refresh"
                THEN <<>>
                ELSE [i \in 1..Len(resps[p]) |-> resps[p][i].status],
     kind |-> result[p].kind,
     sub |-> result[p].resp.sub]

\* the tool goes on to `stage` (a client operation, or "returned")
Goto(p, stage, out) ==
    tool' = [tool EXCEPT ![p].stage = stage, ![p].out = out,
                         ![p].log = Append(@, LogEntry(p))]

\* a client that is built again at every call
get_client_Always ==
    /\ instances' = instances + 1
    /\ access_token' = env.access_token
    /\ refresh_token' = env.refresh_token
    /\ client_id' = env.client_id
    /\ client_secret' = env.client_secret

\* get_client(): the client is built from the environment at its first use
get_client ==
    IF instances = 0
       THEN /\ instances' = 1
            /\ access_token' = env.access_token
            /\ refresh_token' = env.refresh_token
            /\ client_id' = env.client_id
            /\ client_secret' = env.client_secret
       ELSE UNCHANGED <<instances, creds>>

\* str(e) of the exceptions the client raises
Message(e) ==
    CASE e = ErrNoToken ->
             "No access token available. Please authenticate first."
      [] e = ErrRefresh -> "Failed to refresh access token"
      [] e = ErrForbidden ->
             "Profile access forbidden. Please ensure your LinkedIn app has the 'r_basicprofile' or 'profile' scope."
      [] e = ErrUnauthorized ->
             "Unauthorized. Please check your access token or refresh it."
      [] e = ErrProfileApi -> "Profile API error: <status> - <text>"
      [] e = ErrTransport -> "<connection error>"
      [] e = ErrDecode -> "<not JSON>"

MsgNoItems == "'list' object has no attribute 'items'"
MsgNoGet == "'list' object has no attribute 'get'"
MsgNoneConcat == "can only concatenate str (not \"NoneType\") to str"
MsgNoMakeRequest == "'LinkedInOAuthClient' object has no attribute 'make_request'"

\* str(e) of the HTTPError of response.raise_for_status(), and response.text
HttpErrorText(r) == ToString(r.status) \o " Error for url"
ResponseText(r) == "<body of " \o ToString(r.status) \o ">"

Denied403 ==
    "Error creating post: Permission denied (403).\nThis usually means your LinkedIn app doesn't have the required permissions.\nRequired permissions: 'w_member_social' scope\nPlease check your LinkedIn app settings and ensure the app has the correct permissions.\n"

PostIds == {"Unknown", "urn:li:share:1"}

(***************************************************************************)
(* The tools of tools.py and of src/src/mcp_linkedin/main.py               *)
(***************************************************************************)
get_profile_info_invoke(p) ==
    /\ server \in {"tools", "pkg"}
    /\ Invoke(p, "get_profile_info", "get_profile", NoArgs, NoHeaders)
    /\ get_client
    /\ UNCHANGED <<pc, op, kwargs, calls, resps, result, pre,
                   server, env, registered>>

refresh_token_invoke(p) ==
    /\ server = "tools"
    /\ Invoke(p, "refresh_token", "refresh", NoArgs, NoHeaders)
    /\ get_client
    /\ UNCHANGED <<pc, op, kwargs, calls, resps, result, pre,
                   server, env, registered>>

create_post_invoke(p) ==
    /\ server \in {"tools", "pkg"}
    /\ \E args \in IF server = "tools" THEN AuthorPostArgs ELSE PlainPostArgs :
          Invoke(p, "create_post",
                 IF server = "tools" THEN "request" ELSE "get_profile",
                 args, NoHeaders)
    /\ get_client
    /\ UNCHANGED <<pc, op, kwargs, calls, resps, result, pre,
                   server, env, registered>>

(***************************************************************************)
(* The tools of src/main.py: the credentials come with the call            *)
(***************************************************************************)
\* headers.get(name)
HeaderGet(v) == IF v = Absent THEN None ELSE v

\* __init__ of src/main.py: `parameter or os.getenv(...)`
Construct(parameter, environment) ==
    IF Falsy(parameter) THEN environment ELSE parameter

\* client = LinkedInOAuthClient(client_id=..., client_secret=..., ...)
NewClient(cid, cs, at, rt) ==
    /\ client_id' = Construct(cid, env.client_id)
    /\ client_secret' = Construct(cs, env.client_secret)
    /\ access_token' = Construct(at, env.access_token)
    /\ refresh_token' = Construct(rt, env.refresh_token)

MsgMissAccess ==
    "Error creating post: Miss client_id or client_secret or access_token"
MsgMissRefresh ==
    "Error creating post: Miss client_id or client_secret or refresh_token"

\* _get_profile_info(ctx) up to the client it builds
get_profile_info_ctx(p) ==
    /\ server = "hdr"
    /\ \E h \in InboundHeaders :
          LET cid == HeaderGet(h.linkedin_client_id)
              cs == HeaderGet(h.linkedin_client_secret)
              at == HeaderGet(h.linkedin_access_token)
              start == Started("get_profile_info", "get_profile", NoArgs, h)
          IN /\ CanInvoke(p, "get_profile_info")
             /\ IF ~Falsy(cid) /\ ~Falsy(cs) /\ ~Falsy(at)
                   THEN /\ NewClient(cid, cs, at, None)
                        /\ tool' = [tool EXCEPT ![p] =
                                       [start EXCEPT !.built = TRUE]]
                   ELSE /\ UNCHANGED creds
                        /\ tool' = [tool EXCEPT ![p] =
                                       [start EXCEPT
                                           !.stage = "returned",
                                           !.out = Text(<<MsgMissAccess>>)]]
    /\ UNCHANGED <<pc, op, kwargs, calls, resps, result, pre,
                   server, env, instances, registered>>

\* a _create_post that asks for the refresh token only
create_post_ctx_TokenOnly(p) ==
    /\ server = "hdr"
    /\ \E h \in InboundHeaders, args \in PlainPostArgs :
          LET cid == HeaderGet(h.linkedin_client_id)
              cs == HeaderGet(h.linkedin_client_secret)
              rt == HeaderGet(h.linkedin_refresh_token)
              start == Started("create_post", "refresh", args, h)
          IN /\ CanInvoke(p, "create_post")
             /\ IF ~Falsy(rt)
                   THEN /\ NewClient(cid, cs, None, rt)
                        /\ tool' = [tool EXCEPT ![p] =
                                       [start EXCEPT !.built = TRUE]]
                   ELSE /\ UNCHANGED creds
                        /\ tool' = [tool EXCEPT ![p] =
                                       [start EXCEPT
                                           !.stage = "returned",
                                           !.out = Text(<<MsgMissRefresh>>)]]
    /\ UNCHANGED <<pc, op, kwargs, calls, resps, result, pre,
                   server, env, instances, registered>>

\* _create_post(ctx, ...) up to the client it builds
create_post_ctx(p) ==
    /\ server = "hdr"
    /\ \E h \in InboundHeaders, args \in PlainPostArgs :
          LET cid == HeaderGet(h.linkedin_client_id)
              cs == HeaderGet(h.linkedin_client_secret)
              rt == HeaderGet(h.linkedin_refresh_token)
              start == Started("create_post", "refresh", args, h)
          IN /\ CanInvoke(p, "create_post")
             /\ IF ~Falsy(cid) /\ ~Falsy(cs) /\ ~Falsy(rt)
                   THEN /\ NewClient(cid, cs, None, rt)
                        /\ tool' = [tool EXCEPT ![p] =
                                       [start EXCEPT !.built = TRUE]]
                   ELSE /\ UNCHANGED creds
                        /\ tool' = [tool EXCEPT ![p] =
                                       [start EXCEPT
                                           !.stage = "returned",
                                           !.out = Text(<<MsgMissRefresh>>)]]
    /\ UNCHANGED <<pc, op, kwargs, calls, resps, result, pre,
                   server, env, instances, registered>>

(***************************************************************************)
(* The tools call the client, and turn what comes back into text           *)
(***************************************************************************)
\* the request create_post asks for: "/posts" with the given author in
\* tools.py, "/v2/posts" with the author of the profile in src/main.py
ToolEndpoint == IF server = "tools" THEN "/posts" ELSE "/v2/posts"

ToolPayload(p) ==
    IF server = "tools"
       THEN PostData(tool[p].args.author, tool[p].args, FALSE)
       ELSE PostData(tool[p].author, tool[p].args, TRUE)

call_get_profile(p) ==
    /\ tool[p].stage = "get_profile"
    /\ get_profile_begin(p)
    /\ UNCHANGED above

call_refresh(p) ==
    /\ tool[p].stage = "refresh"
    /\ refresh_begin(p)
    /\ UNCHANGED above

\* client._make_request("POST", endpoint, json=post_data)
call_request(p) ==
    /\ tool[p].stage = "request"
    /\ make_request_begin(p)
    /\ calls'[p] # <<>> =>
          /\ calls'[p][1].url = base_url \o ToolEndpoint
          /\ calls'[p][1].data = ("json" :> ToolPayload(p))
    /\ UNCHANGED above

\* an except clause that lets ValueError through
Caught_NotValueError(e, prefix) ==
    IF e = ErrNoToken THEN Escaped(e) ELSE Text(<<prefix, Message(e)>>)

\* except Exception as e: return f"<prefix>{str(e)}"
Caught(e, prefix) == Text(<<prefix, Message(e)>>)

\* _get_profile_info after client.get_profile()
ProfileText(res) ==
    IF res.kind = "raise"
       THEN Caught(res.err, "Error retrieving profile: ")
       ELSE IF res.resp.kind = "nondict"
       THEN Text(<<"Error retrieving profile: ", MsgNoItems>>)
       ELSE Text(<<"LinkedIn Profile Information:\n">>
                 \o (IF res.resp.sub = Absent
                        THEN <<>>
                        ELSE <<"sub: " \o res.resp.sub \o "\n">>))

get_profile_info_done(p) ==
    /\ tool[p].name = "get_profile_info"
    /\ op[p] = "get_profile"
    /\ Return(p)
    /\ Goto(p, "returned", ProfileText(result[p]))
    /\ UNCHANGED <<server, env, instances, registered>>

\* _refresh_token after client.refresh_access_token()
RefreshText(res) ==
    IF res.kind = "raise"
       THEN Caught(res.err, "Error refreshing token: ")
       ELSE IF res.val
       THEN Text(<<"Access token refreshed successfully.">>)
       ELSE Text(<<"Failed to refresh access token. Check your refresh token and client credentials.">>)

refresh_token_done(p) ==
    /\ tool[p].name = "refresh_token"
    /\ op[p] = "refresh"
    /\ Return(p)
    /\ Goto(p, "returned", RefreshText(result[p]))
    /\ UNCHANGED <<server, env, instances, registered>>

\* the except clause of _create_post in tools.py, for an HTTPError
HttpErrorPlain(r) ==
    Text(<<"Error creating post: ", HttpErrorText(r), "\nAPI Response: ",
           ResponseText(r)>>)

\* the except clause of _create_post in the two main.py, for an HTTPError
HttpErrorScoped(r) ==
    IF r.status = 403
       THEN Text(<<Denied403, "API Response: ", ResponseText(r)>>)
       ELSE HttpErrorPlain(r)

\* _create_post after the request: raise_for_status and the return
PostText(res, id) ==
    IF res.kind = "raise"
       THEN Caught(res.err, "Error creating post: ")
       ELSE IF IsHttpError(res.resp)
       THEN IF server = "tools"
               THEN HttpErrorPlain(res.resp)
               ELSE HttpErrorScoped(res.resp)
       ELSE IF server = "tools"
       THEN Text(<<"Post created successfully! Post ID: ", id>>)
       ELSE Text(<<"Post created successfully!">>)

create_post_done(p) ==
    /\ tool[p].name = "create_post"
    /\ op[p] = "request"
    /\ Return(p)
    /\ \E id \in PostIds : Goto(p, "returned", PostText(result[p], id))
    /\ UNCHANGED <<server, env, instances, registered>>

\* a create_post that posts right after the refresh, with no profile fetch
create_post_refreshed_NoProfile(p) ==
    /\ tool[p].name = "create_post"
    /\ op[p] = "refresh"
    /\ Return(p)
    /\ \E v \in ProfileSubs :
          tool' = [tool EXCEPT ![p].stage = "request",
                               ![p].author = PersonUrn(v),
                               ![p].log = Append(@, LogEntry(p))]
    /\ UNCHANGED <<server, env, instances, registered>>

\* src/main.py: client.refresh_access_token(), its result not looked at
create_post_refreshed(p) ==
    /\ tool[p].name = "create_post"
    /\ op[p] = "refresh"
    /\ Return(p)
    /\ Goto(p, "get_profile", NoOut)
    /\ UNCHANGED <<server, env, instances, registered>>

\* the two main.py: profile = client.get_profile(); the author is taken from
\* its "sub"; src/mcp_linkedin/main.py then asks its client for make_request,
\* which client.py does not have
create_post_profiled(p) ==
    /\ tool[p].name = "create_post"
    /\ op[p] = "get_profile"
    /\ Return(p)
    /\ LET res == result[p]
           fail(msg) == Goto(p, "returned",
                             Text(<<"Error creating post: ", msg>>))
       IN IF res.kind = "raise"
             THEN Goto(p, "returned", Caught(res.err, "Error creating post: "))
             ELSE IF res.resp.kind = "nondict"
             THEN fail(MsgNoGet)
             ELSE IF DictGet(res.resp.sub) = None
             THEN fail(MsgNoneConcat)
             ELSE IF server = "pkg"
             THEN fail(MsgNoMakeRequest)
             ELSE tool' = [tool EXCEPT
                              ![p].stage = "request",
                              ![p].author = PersonUrn(res.resp.sub),
                              ![p].log = Append(@, LogEntry(p))]
    /\ UNCHANGED <<server, env, instances, registered>>

\* the text goes back to the framework; in src/main.py the client built for
\* the call goes with it
tool_return(p) ==
    /\ tool[p].stage = "returned"
    /\ tool' = [tool EXCEPT ![p] = NoTool]
    /\ IF server = "hdr"
          THEN /\ access_token' = env.access_token
               /\ refresh_token' = env.refresh_token
               /\ client_id' = env.client_id
               /\ client_secret' = env.client_secret
               /\ pre' = [pre EXCEPT ![p] = env]
          ELSE UNCHANGED <<creds, pre>>
    /\ UNCHANGED <<pc, op, kwargs, calls, resps, result,
                   server, env, instances, registered>>

\* no file has been written by the servers' process
NoFile == [exists |-> FALSE, content |-> <<>>]

Init ==
    /\ InitServers
    /\ env_file = NoFile
    /\ saved = <<>>

Next ==
    \/ register_tool /\ UNCHANGED helper
    \/ \E p \in Procs :
        \/ NoOtherTool(p) /\ get_profile_info_invoke(p) /\ UNCHANGED helper
        \/ NoOtherTool(p) /\ refresh_token_invoke(p) /\ UNCHANGED helper
        \/ NoOtherTool(p) /\ create_post_invoke(p) /\ UNCHANGED helper
        \/ NoOtherTool(p) /\ get_profile_info_ctx(p) /\ UNCHANGED helper
        \/ NoOtherTool(p) /\ create_post_ctx(p) /\ UNCHANGED helper
        \/ call_request(p) /\ UNCHANGED helper
        \/ make_request_response(p) /\ UNCHANGED <<above, helper>>
        \/ make_request_refreshed(p) /\ UNCHANGED <<above, helper>>
        \/ make_request_retried(p) /\ UNCHANGED <<above, helper>>
        \/ call_refresh(p) /\ UNCHANGED helper
        \/ refresh_response(p) /\ UNCHANGED <<above, helper>>
        \/ call_get_profile(p) /\ UNCHANGED helper
        \/ get_profile_response(p) /\ UNCHANGED <<above, helper>>
        \/ get_profile_info_done(p) /\ UNCHANGED helper
        \/ refresh_token_done(p) /\ UNCHANGED helper
        \/ create_post_done(p) /\ UNCHANGED helper
        \/ create_post_refreshed(p) /\ UNCHANGED helper
        \/ create_post_profiled(p) /\ UNCHANGED helper
        \/ tool_return(p) /\ UNCHANGED helper

Spec == Init /\ [][Next]_vars

(***************************************************************************)
(* Tool invocations that overlap: tools.py serving create_post from        *)
(* several threads over the one client of get_client().  Nothing in        *)
(* client.py or tools.py takes a lock, so the callers interleave at every  *)
(* network call.                                                           *)
(***************************************************************************)
InitConc ==
    /\ Init
    /\ server = "tools"
    /\ env = [access_token |-> "at1", refresh_token |-> "rt1",
              client_id |-> "cid", client_secret |-> "secret"]

\* the answers the servers give in the overlapping runs
ConcApiOutcomes ==
    {Resp(s, "dict", Absent, Absent) : s \in {201, 401}}
ConcTokenOutcomes ==
    {Resp(400, "text", Absent, Absent)}
    \cup {Resp(200, "dict", a, Absent) : a \in AccessTokens}

\* the answer p has just received is one of `allowed`
Answered(p, allowed) == resps'[p][Len(resps'[p])] \in allowed

NextConc ==
    \/ register_tool /\ UNCHANGED helper
    \/ \E p \in Procs :
        \/ create_post_invoke(p) /\ UNCHANGED helper
        \/ call_request(p) /\ UNCHANGED helper
        \/ make_request_response(p) /\ Answered(p, ConcApiOutcomes)
                                    /\ UNCHANGED <<above, helper>>
        \/ make_request_refreshed(p) /\ Answered(p, ConcTokenOutcomes)
                                     /\ UNCHANGED <<above, helper>>
        \/ make_request_retried(p) /\ Answered(p, ConcApiOutcomes)
                                   /\ UNCHANGED <<above, helper>>
        \/ create_post_done(p) /\ UNCHANGED helper
        \/ tool_return(p) /\ UNCHANGED helper

SpecConc == InitConc /\ [][NextConc]_vars

(***************************************************************************)
(* The OAuth helper script: LinkedInOAuthHelper.save_tokens_to_env         *)
(* (oauth_helper.py).  A file's content is a sequence of characters; a     *)
(* variable name is written as one character, and so is a run of other     *)
(* characters that the code never looks into.                              *)
(***************************************************************************)
\* largest number of lines of the files the helper is started on
MaxLines == 3

\* what a run of the servers leaves alone in the helper's run
served == <<access_token, refresh_token, client_id, client_secret,
            pc, op, kwargs, calls, resps, result, pre,
            server, env, instances, registered, tool>>

Newline == "\n"

\* the keys of the token dictionary and the variables they are saved as
TokenKeys == <<"access_token", "refresh_token", "id_token">>
VarNames ==
    <<"LINKEDIN_ACCESS_TOKEN", "LINKEDIN_REFRESH_TOKEN", "LINKEDIN_ID_TOKEN">>

\* the token dictionaries of the token endpoint: an access token, which may
\* end in "=", alone, or with a refresh token, or with an id token as well
TokenDicts ==
    {("access_token" :> <<"new">>),
     ("access_token" :> <<"b64", "=">>),
     ("access_token" :> <<"new">> @@ "refresh_token" :> <<"new">>),
     ("access_token" :> <<"b64", "=">> @@ "refresh_token" :> <<"new">>
          @@ "id_token" :> <<"new">>)}

\* the lines the file may have before the helper runs
EnvLines ==
    {<<>>,
     <<"LINKEDIN_ACCESS_TOKEN", "=", "old">>,
     <<"LINKEDIN_REFRESH_TOKEN", "=", "old">>,
     <<"LINKEDIN_ID_TOKEN", "=", "old", "=">>,
     <<"LINKEDIN_ACCESS_TOKEN", "_OLD", "=", "old">>,
     <<"#", "LINKEDIN_REFRESH_TOKEN", "=", "old">>}

\* "\n".join(lines)
RECURSIVE Join(_)
Join(lines) ==
    IF lines = <<>> THEN <<>>
    ELSE IF Len(lines) = 1 THEN lines[1]
    ELSE lines[1] \o <<Newline>> \o Join(Tail(lines))

\* s.split(sep)
RECURSIVE Split(_, _)
Split(s, sep) ==
    LET at == {i \in 1..Len(s) : s[i] = sep}
    IN IF at = {}
          THEN <<s>>
          ELSE LET i == CHOOSE j \in at : \A k \in at : j <= k
               IN <<SubSeq(s, 1, i - 1)>>
                  \o Split(SubSeq(s, i + 1, Len(s)), sep)

\* line.startswith(prefix)
StartsWith(line, prefix) ==
    /\ Len(line) >= Len(prefix)
    /\ SubSeq(line, 1, Len(prefix)) = prefix

\* tokens.get(key, '') inside the f-string
TokenValue(tokens, key) ==
    IF key \in DOMAIN tokens THEN tokens[key] ELSE <<>>

\* token_lines
TokenLines(tokens) ==
    [i \in 1..3 |-> <<VarNames[i], "=">> \o TokenValue(tokens, TokenKeys[i])]

\* a loop body that never finds the variable
ReplaceOrAppend_Append(lines, token_line) == Append(lines, token_line)

\* the body of `for token_line in token_lines`: the first line that starts
\* with "<var_name>=" is replaced, or the token line is appended
ReplaceOrAppend(lines, token_line) ==
    LET var_name == Split(token_line, "=")[1]
        hits == {i \in 1..Len(lines) :
                    StartsWith(lines[i], var_name \o <<"=">>)}
    IN IF hits = {}
          THEN Append(lines, token_line)
          ELSE LET i == CHOOSE j \in hits : \A k \in hits : j <= k
               IN [lines EXCEPT ![i] = token_line]

\* lines = env_content.split("\n") if env_content else []
FileLines(content) ==
    IF content = <<>> THEN <<>> ELSE Split(content, Newline)

\* the content save_tokens_to_env writes
SavedContent(content, tokens) ==
    LET l0 == FileLines(content)
        l1 == ReplaceOrAppend(l0, TokenLines(tokens)[1])
        l2 == ReplaceOrAppend(l1, TokenLines(tokens)[2])
        l3 == ReplaceOrAppend(l2, TokenLines(tokens)[3])
    IN Join(l3)

\* the files the helper may find: none, or up to MaxLines lines
EnvFiles ==
    {NoFile}
    \cup {[exists |-> TRUE, content |-> Join(ls)] :
             ls \in UNION {[1..n -> EnvLines] : n \in 0..MaxLines}}

NoSave == [done |-> FALSE, before |-> NoFile, tokens |-> <<>>,
           again |-> FALSE]

InitSave ==
    /\ InitServers
    /\ server = "tools"
    /\ env = [access_token |-> "at1", refresh_token |-> "rt1",
              client_id |-> "cid", client_secret |-> "secret"]
    /\ env_file \in EnvFiles
    /\ saved = NoSave

\* save_tokens_to_env(tokens): `saved` keeps the file as it was, the tokens,
\* and whether the same tokens were saved just before
save_tokens_to_env ==
    /\ \E tokens \in TokenDicts :
          /\ env_file' =
                [exists |-> TRUE,
                 content |-> SavedContent(IF env_file.exists
                                             THEN env_file.content
                                             ELSE <<>>, tokens)]
          /\ saved' = [done |-> TRUE, before |-> env_file, tokens |-> tokens,
                       again |-> saved.done /\ saved.tokens = tokens]
    /\ UNCHANGED served

NextSave == save_tokens_to_env

SpecSave == InitSave /\ [][NextSave]_vars

(***************************************************************************)
(* Properties                                                              *)
(***************************************************************************)
\* number of calls the current operation of p has sent to "api" or "token"
CountTo(p, dest) ==
    Cardinality({i \in 1..Len(calls[p]) : calls[p][i].to = dest})

\* the client's tokens are those it had when p's operation began
TokensKept(p) ==
    /\ access_token = pre[p].access_token
    /\ refresh_token = pre[p].refresh_token

Unset(v) == v = None \/ v = ""

\* one of the three refresh credentials was missing when p's operation began
RefreshCredsMissing(p) ==
    \/ Unset(pre[p].refresh_token)
    \/ Unset(pre[p].client_id)
    \/ Unset(pre[p].client_secret)

\* p's request got 401, then a 200 from the token endpoint with a new
\* access token
RefreshedAfter401(p) ==
    /\ op[p] = "request"
    /\ Len(resps[p]) >= 2
    /\ resps[p][1].status = 401
    /\ resps[p][2].status = 200
    /\ resps[p][2].kind = "dict"
    /\ resps[p][2].at \in AccessTokens

\* C1: a request whose first answer is 401 and whose refresh is answered 200
\* with a new access token makes exactly one refresh call and exactly one
\* retry of the original call, and the retry's Authorization header carries
\* the new access token.
C1_RetryCarriesNewToken ==
    \A p \in Procs :
        RefreshedAfter401(p) =>
            /\ CountTo(p, "token") = 1
            /\ Len(calls[p]) = 3
            /\ calls[p][2].to = "token"
            /\ calls[p][3].to = "api"
            /\ calls[p][3].method = calls[p][1].method
            /\ calls[p][3].url = calls[p][1].url
            /\ calls[p][3].headers["Authorization"]
                  = "Bearer " \o resps[p][2].at

\* C2: when the first response of a request is not 401, the call carried
\* exactly one Authorization header, "Bearer " followed by the client's
\* access token, and no refresh call was issued.
C2_BearerNoRefresh ==
    \A p \in Procs :
        (op[p] = "request" /\ Len(resps[p]) >= 1 /\ resps[p][1].status # 401)
        => /\ Len(calls[p]) = 1
           /\ calls[p][1].to = "api"
           /\ Cardinality({k \in DOMAIN calls[p][1].headers :
                             k = "Authorization"}) = 1
           /\ calls[p][1].headers["Authorization"]
                 = "Bearer " \o pre[p].access_token
           /\ CountTo(p, "token") = 0

C2_Witness ==
    \E p \in Procs :
        /\ op[p] = "request"
        /\ pc[p] = "done"
        /\ Len(resps[p]) = 1
        /\ resps[p][1].status = 200
        /\ pre[p].access_token \in AccessTokens

\* C3: a request whose first response is 401 and whose refresh call is
\* answered with a non-200 status ends by raising the refresh failure, after
\* exactly one API call and one refresh call, and no retry.
C3_FailedRefreshRaises ==
    \A p \in Procs :
        (/\ op[p] = "request"
         /\ Len(resps[p]) >= 2
         /\ resps[p][1].status = 401
         /\ resps[p][2].status \notin {0, 200})
        => /\ pc[p] = "done"
           /\ result[p].kind = "raise"
           /\ result[p].err = ErrRefresh
           /\ Len(calls[p]) = 2
           /\ calls[p][1].to = "api"
           /\ calls[p][2].to = "token"

C3_Witness ==
    \E p \in Procs :
        /\ op[p] = "request"
        /\ Len(resps[p]) = 2
        /\ resps[p][1].status = 401
        /\ resps[p][2].status = 400
        /\ pc[p] = "done"

\* C4: one request sends at most two calls to the API and at most one to the
\* token endpoint; a 401 answer to the retry is returned to the caller with
\* nothing more sent, and a failed refresh call is not repeated.
C4_AtMostOneRetry ==
    \A p \in Procs :
        op[p] = "request" =>
            /\ CountTo(p, "api") <= 2
            /\ CountTo(p, "token") <= 1
            /\ Len(resps[p]) >= 3 =>
                  /\ pc[p] = "done"
                  /\ Len(calls[p]) = 3
                  /\ Len(resps[p]) = 3
                  /\ resps[p][3].status # 0 =>
                        /\ result[p].kind = "response"
                        /\ result[p].resp = resps[p][3]
            /\ (/\ Len(resps[p]) >= 2
                /\ ~(resps[p][2].status = 200 /\ resps[p][2].kind = "dict"))
               => pc[p] = "done" /\ Len(calls[p]) = 2

C4_Witness ==
    \E p \in Procs :
        /\ op[p] = "request"
        /\ Len(resps[p]) = 3
        /\ resps[p][3].status = 401
        /\ pc[p] = "done"

\* C5: when refresh_token, client_id or client_secret is unset or empty,
\* refresh returns False without raising, sends nothing, and leaves
\* access_token and refresh_token as they were; inside a request the 401
\* then ends in the refresh failure with no call to the token endpoint.
C5_RefreshFailsClosed ==
    \A p \in Procs :
        /\ (op[p] = "refresh" /\ RefreshCredsMissing(p))
           => /\ pc[p] = "done"
              /\ result[p].kind = "bool"
              /\ result[p].val = FALSE
              /\ calls[p] = <<>>
              /\ TokensKept(p)
        /\ (/\ op[p] = "request"
            /\ RefreshCredsMissing(p)
            /\ Len(resps[p]) >= 1
            /\ resps[p][1].status = 401)
           => /\ pc[p] = "done"
              /\ CountTo(p, "token") = 0
              /\ result[p].kind = "raise"
              /\ result[p].err = ErrRefresh
              /\ TokensKept(p)

C5_Witness ==
    \E p \in Procs :
        /\ op[p] = "refresh"
        /\ pc[p] = "done"
        /\ pre[p].refresh_token \in RefreshTokens
        /\ pre[p].client_id = "cid"
        /\ pre[p].client_secret = ""

\* the i-th call of p went to the token endpoint and has been answered
TokenAnswered(p, i) ==
    /\ i \in 1..Len(resps[p])
    /\ calls[p][i].to = "token"

\* C6: after a 200 from the token endpoint, access_token is the body's
\* access_token (None when the body has none), and refresh_token is the
\* body's refresh_token if the body has one and the earlier value otherwise.
C6_RefreshReplacesTokens ==
    \A p \in Procs : \A i \in 1..Len(resps[p]) :
        (/\ TokenAnswered(p, i)
         /\ resps[p][i].status = 200
         /\ resps[p][i].kind = "dict")
        => /\ access_token
                 = (IF resps[p][i].at = Absent THEN None ELSE resps[p][i].at)
           /\ refresh_token
                 = (IF resps[p][i].rt # Absent
                       THEN resps[p][i].rt
                       ELSE pre[p].refresh_token)

C6_Witness ==
    \E p \in Procs : \E i \in 1..Len(resps[p]) :
        /\ TokenAnswered(p, i)
        /\ resps[p][i].status = 200
        /\ resps[p][i].kind = "dict"
        /\ resps[p][i].rt = Absent
        /\ resps[p][i].at \in AccessTokens
        /\ resps[p][i].at # pre[p].access_token
        /\ pre[p].refresh_token \in RefreshTokens

\* C7: a refresh that fails (non-200 status, transport failure, body that
\* does not decode) returns False without raising and leaves access_token
\* and refresh_token exactly as they were before it, whatever came before.
C7_FailedRefreshKeepsTokens ==
    \A p \in Procs : \A i \in 1..Len(resps[p]) :
        (/\ TokenAnswered(p, i)
         /\ ~(resps[p][i].status = 200 /\ resps[p][i].kind = "dict"))
        => /\ TokensKept(p)
           /\ pc[p] = "done"
           /\ op[p] = "refresh" =>
                 result[p].kind = "bool" /\ result[p].val = FALSE
           /\ op[p] = "request" =>
                 result[p].kind = "raise" /\ result[p].err = ErrRefresh

C7_Witness ==
    \E p \in Procs :
        /\ op[p] = "refresh"
        /\ TokenAnswered(p, 1)
        /\ resps[p][1].status = 200
        /\ resps[p][1].kind = "undecodable"
        /\ pre[p].access_token \in AccessTokens

\* C8: with no access token set (None or empty) a request raises the
\* missing-token error before anything is sent: no API call, no refresh
\* call, and the four credentials unchanged.
C8_NoTokenNoCall ==
    \A p \in Procs :
        (op[p] = "request" /\ Unset(pre[p].access_token))
        => /\ pc[p] = "done"
           /\ result[p].kind = "raise"
           /\ result[p].err = ErrNoToken
           /\ calls[p] = <<>>
           /\ resps[p] = <<>>
           /\ Snapshot = pre[p]

C8_Witness ==
    \E p \in Procs :
        /\ op[p] = "request"
        /\ pre[p].access_token = ""
        /\ pc[p] = "done"

\* C9: a first response whose status is not 401 is returned to the caller as
\* it is, with no refresh and no retry, and access_token and refresh_token
\* unchanged.
C9_Non401Returned ==
    \A p \in Procs :
        (/\ op[p] = "request"
         /\ Len(resps[p]) >= 1
         /\ resps[p][1].status \notin {0, 401})
        => /\ pc[p] = "done"
           /\ result[p].kind = "response"
           /\ result[p].resp = resps[p][1]
           /\ Len(calls[p]) = 1
           /\ Len(resps[p]) = 1
           /\ TokensKept(p)

C9_Witness ==
    \E p \in Procs :
        /\ op[p] = "request"
        /\ Len(resps[p]) = 1
        /\ resps[p][1].status = 403
        /\ pc[p] = "done"

\* C10 as stated: every 401 from the API triggers the refresh protocol, the
\* profile GET included: with the refresh credentials set, a 401 is followed
\* by a call to the token endpoint.
C10_Every401Refreshes ==
    \A p \in Procs :
        (/\ op[p] \in {"request", "get_profile"}
         /\ Len(resps[p]) >= 1
         /\ resps[p][1].status = 401
         /\ ~RefreshCredsMissing(p))
        => /\ Len(calls[p]) >= 2
           /\ calls[p][2].to = "token"

\* C10 amended: a 401 answer to the first call of a request triggers the
\* refresh protocol (a refresh call when the refresh credentials are set,
\* and one retry of the original call when the refresh yields a non-empty
\* access token); a 401 on the profile GET triggers neither: get_profile
\* raises its Unauthorized error after that single call, tokens unchanged.
C10_Only_make_request_Refreshes ==
    \A p \in Procs :
        /\ (/\ op[p] = "request"
            /\ Len(resps[p]) >= 1
            /\ resps[p][1].status = 401
            /\ ~RefreshCredsMissing(p))
           => /\ Len(calls[p]) >= 2
              /\ calls[p][2].to = "token"
              /\ RefreshedAfter401(p) =>
                    /\ Len(calls[p]) = 3
                    /\ calls[p][3].to = "api"
                    /\ calls[p][3].method = calls[p][1].method
                    /\ calls[p][3].url = calls[p][1].url
        /\ (/\ op[p] = "get_profile"
            /\ Len(resps[p]) >= 1
            /\ resps[p][1].status = 401)
           => /\ pc[p] = "done"
              /\ Len(calls[p]) = 1
              /\ result[p].kind = "raise"
              /\ result[p].err = ErrUnauthorized
              /\ TokensKept(p)

C10_Witness ==
    \E p \in Procs :
        /\ op[p] = "get_profile"
        /\ Len(resps[p]) = 1
        /\ resps[p][1].status = 401
        /\ ~RefreshCredsMissing(p)
        /\ pc[p] = "done"

\* C11: from a client that has an access token, a refresh that reports
\* success leaves the client with a non-empty access token, whatever 200 body
\* the token endpoint sent, so that the retry of a request can be sent.
C11_SuccessKeepsAuthenticated ==
    \A p \in Procs :
        /\ (/\ op[p] = "refresh"
            /\ pc[p] = "done"
            /\ ~Unset(pre[p].access_token)
            /\ result[p].kind = "bool"
            /\ result[p].val = TRUE)
           => ~Unset(access_token)
        /\ (/\ op[p] = "request"
            /\ Len(resps[p]) >= 2
            /\ resps[p][2].status = 200
            /\ resps[p][2].kind = "dict")
           => /\ ~Unset(access_token)
              /\ Len(calls[p]) = 3

\* C12: when two requests on the same client are under way together and
\* each has got a 401, the refresh is serialized: between them they send at
\* most one call to the token endpoint.
C12_RefreshSerialized ==
    \A p \in Procs : \A q \in Procs \ {p} :
        (/\ op[p] = "request"
         /\ op[q] = "request"
         /\ Len(resps[p]) >= 1
         /\ Len(resps[q]) >= 1
         /\ resps[p][1].status = 401
         /\ resps[q][1].status = 401)
        => CountTo(p, "token") + CountTo(q, "token") <= 1

\* the last client operation a tool invocation has finished
LastOp(p) == tool[p].log[Len(tool[p].log)]

ErrorPrefixes ==
    {"Error retrieving profile: ", "Error refreshing token: ",
     "Error creating post: "}

\* C13: every tool invocation hands a string back to the framework, whatever
\* the underlying calls did; when the last client operation raised (missing
\* token, failed refresh, transport failure, profile error) the string
\* starts with the tool's error prefix, and no exception leaves the tool.
C13_ToolsReturnStrings ==
    \A p \in Procs :
        /\ tool[p].out.kind # "raise"
        /\ tool[p].stage = "returned" =>
              /\ tool[p].out.kind = "string"
              /\ Len(tool[p].out.text) >= 1
              /\ (tool[p].log # <<>> /\ LastOp(p).kind = "raise")
                 => tool[p].out.text[1] \in ErrorPrefixes

C13_Witness ==
    \E p \in Procs :
        /\ tool[p].stage = "returned"
        /\ tool[p].name = "create_post"
        /\ tool[p].log # <<>>
        /\ LastOp(p).op = "request"
        /\ LastOp(p).kind = "raise"
        /\ LastOp(p).sent = <<>>
        /\ tool[p].out.kind = "string"

\* the last answer of the tool's last client operation came from the API
\* and had status 403
EndedWith403(p) ==
    /\ tool[p].log # <<>>
    /\ LET last == LastOp(p)
           n == Len(last.got)
       IN /\ n >= 1
          /\ last.got[n] = 403
          /\ last.sent[n] = "api"

\* the text names the permission scope the LinkedIn app needs
HasScopeGuidance(out) ==
    \E i \in 1..Len(out.text) :
        out.text[i] \in {Denied403, Message(ErrForbidden)}

\* C14: whenever the API call under a tool invocation ended with status 403,
\* the string the tool returns carries the permission-scope guidance, for
\* create_post and for get_profile_info, in each of the three servers.
C14_ForbiddenNamesScope ==
    \A p \in Procs :
        (/\ tool[p].stage = "returned"
         /\ tool[p].name \in {"create_post", "get_profile_info"}
         /\ EndedWith403(p))
        => HasScopeGuidance(tool[p].out)

\* the JSON body of the i-th call of p's request
Body(p, i) == calls[p][i].data["json"]

\* C15: every call create_post sends to the posts endpoint has a body whose
\* commentary, visibility and distribution.feedDistribution are the values
\* given to the tool ("PUBLIC" and "MAIN_FEED" when left out), whose
\* lifecycleState is "PUBLISHED", and whose author is the author given to the
\* tool (tools.py) or the person URN of the profile's sub (the two main.py,
\* which take no author).
C15_BodyCarriesArguments ==
    \A p \in Procs :
        (tool[p].name = "create_post" /\ op[p] = "request") =>
            \A i \in 1..Len(calls[p]) :
                calls[p][i].to = "api" =>
                    /\ Body(p, i).commentary = tool[p].args.commentary
                    /\ Body(p, i).visibility
                          = Param(tool[p].args.visibility, "PUBLIC")
                    /\ Body(p, i).distribution.feedDistribution
                          = Param(tool[p].args.feed_distribution, "MAIN_FEED")
                    /\ Body(p, i).lifecycleState = "PUBLISHED"
                    /\ server = "tools" =>
                          Body(p, i).author = tool[p].args.author
                    /\ server # "tools" =>
                          Body(p, i).author \in
                              {PersonUrn(v) : v \in ProfileSubs}

C15_Witness ==
    \E p \in Procs :
        /\ server = "tools"
        /\ tool[p].name = "create_post"
        /\ op[p] = "request"
        /\ Len(calls[p]) = 3
        /\ tool[p].args.feed_distribution = "NONE"
        /\ Body(p, 3).distribution.feedDistribution = "NONE"
        /\ Body(p, 3).author = "urn:li:organization:2"

\* the client src/main.py has just built for p's tool call, before any of its
\* operations has run
JustBuilt(p) ==
    /\ server = "hdr"
    /\ tool[p].built
    /\ tool[p].log = <<>>
    /\ op[p] = "none"

\* the credential is the header's value when the caller sent one, and the
\* environment's only when the caller sent none
Overrides(header, credential, environment) ==
    IF Unset(HeaderGet(header))
       THEN credential = environment
       ELSE credential = header

\* C16: in the client built for a tool call, each of the four credentials is
\* the value the caller sent in its header, and the environment variable is
\* used only for a credential the caller did not send.
C16_PerCallOverridesEnv ==
    \A p \in Procs :
        JustBuilt(p) =>
            /\ Overrides(tool[p].hdrs.linkedin_access_token,
                         access_token, env.access_token)
            /\ Overrides(tool[p].hdrs.linkedin_refresh_token,
                         refresh_token, env.refresh_token)
            /\ Overrides(tool[p].hdrs.linkedin_client_id,
                         client_id, env.client_id)
            /\ Overrides(tool[p].hdrs.linkedin_client_secret,
                         client_secret, env.client_secret)

ExpectedTools == {"get_profile_info", "refresh_token", "create_post"}

\* C17: once the server is serving, each of get_profile_info, refresh_token
\* and create_post is registered with the framework: no expected tool is
\* missing.
C17_ThreeToolsRegistered ==
    Serving => ExpectedTools \subseteq registered

\* C17, amended: tools.py registers exactly the three tools; src/main.py and
\* src/mcp_linkedin/main.py register get_profile_info and create_post only,
\* refresh_token is missing there; a tool that is not registered is never
\* run.
C17_RegisteredPerModule ==
    /\ Serving =>
          registered = IF server = "tools"
                          THEN ExpectedTools
                          ELSE ExpectedTools \ {"refresh_token"}
    /\ \A p \in Procs :
          tool[p].name # "none" => tool[p].name \in registered

C17_Witness ==
    \E p \in Procs :
        /\ server = "tools"
        /\ Serving
        /\ tool[p].name = "refresh_token"
        /\ tool[p].stage = "returned"

\* the i-th client operation of p's tool call was a profile fetch answered
\* 2xx with a JSON object that has a `sub`
ProfileWithSub(p, i) ==
    /\ tool[p].log[i].op = "get_profile"
    /\ tool[p].log[i].kind = "json"
    /\ tool[p].log[i].sent = <<"api">>
    /\ Len(tool[p].log[i].got) = 1
    /\ tool[p].log[i].got[1] \in 200..299
    /\ tool[p].log[i].sub \in ProfileSubs

\* p's create_post has sent a post-creation request, now or earlier
PostRequested(p) ==
    \/ op[p] = "request" /\ calls[p] # <<>>
    \/ \E i \in 1..Len(tool[p].log) :
          tool[p].log[i].op = "request" /\ tool[p].log[i].sent # <<>>

\* C18: in the create_post of src/main.py the token refresh comes first, the
\* profile fetch second and the post-creation request third; the post request
\* is sent only after a profile fetch answered 2xx with a `sub`; when the
\* profile fetch fails or has no `sub`, no post request is sent and the tool
\* returns an "Error creating post: " string.
C18_RefreshProfilePost ==
    \A p \in Procs :
        (server = "hdr" /\ tool[p].name = "create_post" /\ tool[p].built) =>
            /\ Len(tool[p].log) >= 1 =>
                  /\ tool[p].log[1].op = "refresh"
                  /\ tool[p].log[1].sent = <<"token">>
            /\ Len(tool[p].log) >= 2 => tool[p].log[2].op = "get_profile"
            /\ Len(tool[p].log) >= 3 => tool[p].log[3].op = "request"
            /\ Len(tool[p].log) <= 3
            /\ op[p] = "get_profile" => Len(tool[p].log) = 1
            /\ op[p] = "request" => Len(tool[p].log) = 2
            /\ (op[p] = "request" \/ PostRequested(p)) => ProfileWithSub(p, 2)
            /\ (/\ tool[p].stage = "returned"
                /\ Len(tool[p].log) >= 2
                /\ ~ProfileWithSub(p, 2))
               => /\ ~PostRequested(p)
                  /\ Len(tool[p].log) = 2
                  /\ tool[p].out.kind = "string"
                  /\ tool[p].out.text[1] = "Error creating post: "

C18_Witness ==
    \E p \in Procs :
        /\ server = "hdr"
        /\ tool[p].name = "create_post"
        /\ tool[p].stage = "returned"
        /\ Len(tool[p].log) = 3
        /\ ProfileWithSub(p, 2)
        /\ tool[p].log[3].got = <<201>>
        /\ tool[p].out = Text(<<"Post created successfully!">>)

\* a create_post of src/main.py whose profile had no `sub` has returned
C18_NoSubWitness ==
    \E p \in Procs :
        /\ server = "hdr"
        /\ tool[p].name = "create_post"
        /\ tool[p].stage = "returned"
        /\ Len(tool[p].log) = 2
        /\ tool[p].log[2].kind = "json"
        /\ tool[p].log[2].sub = Absent
        /\ tool[p].out = Text(<<"Error creating post: ", MsgNoneConcat>>)

\* the headers a tool of src/main.py asks for
RequiredHeaders(name) ==
    IF name = "get_profile_info"
       THEN {"linkedin_client_id", "linkedin_client_secret",
             "linkedin_access_token"}
       ELSE {"linkedin_client_id", "linkedin_client_secret",
             "linkedin_refresh_token"}

\* one of the headers p's tool asks for did not come, or came empty
HeaderMissing(p) ==
    \E k \in RequiredHeaders(tool[p].name) :
        tool[p].hdrs[k] = Absent \/ tool[p].hdrs[k] = ""

\* C19: a tool of src/main.py called without one of its required headers
\* (or with an empty one) returns its "Miss ..." error string at once: no
\* client is built, no client operation is run and no network call is sent.
C19_MissingHeaderNoCall ==
    \A p \in Procs :
        (server = "hdr" /\ tool[p].name # "none" /\ HeaderMissing(p)) =>
            /\ tool[p].stage = "returned"
            /\ tool[p].out =
                  Text(<<IF tool[p].name = "get_profile_info"
                            THEN MsgMissAccess ELSE MsgMissRefresh>>)
            /\ ~tool[p].built
            /\ Snapshot = env
            /\ tool[p].log = <<>>
            /\ op[p] = "none"
            /\ calls[p] = <<>>

C19_Witness ==
    \E p \in Procs :
        /\ server = "hdr"
        /\ tool[p].name = "create_post"
        /\ tool[p].hdrs.linkedin_client_secret = ""
        /\ tool[p].hdrs.linkedin_refresh_token = "rt2"
        /\ tool[p].stage = "returned"

\* p has just received a 200 answer from the token endpoint
TokenAnswerTaken(p) ==
    /\ pc[p] = "token"
    /\ Len(resps'[p]) = Len(resps[p]) + 1
    /\ RefreshSucceeds(resps'[p][Len(resps'[p])])

\* one step of a server that uses get_client()
OneClientStep ==
    /\ instances' <= 1
    /\ instances' >= instances
    /\ (instances = 1 /\ creds' # creds) =>
          \E p \in Procs : TokenAnswerTaken(p)
    /\ \A p \in Procs :
          (calls[p] = <<>> /\ calls'[p] # <<>> /\ calls'[p][1].to = "api") =>
              calls'[p][1].headers["Authorization"]
                  = "Bearer " \o access_token

\* C20: with get_client() (tools.py, src/mcp_linkedin/main.py) at most one
\* client is ever built, at the first tool call; after that its tokens
\* change only when a refresh is answered 200, never back to the environment
\* at a later tool call, and every request that begins is sent with the
\* client's current access token.
C20_OneClientKeepsTokens ==
    [][(server # "hdr") => OneClientStep]_vars

C20_Witness ==
    \E p \in Procs :
        /\ server = "tools"
        /\ instances = 1
        /\ env.access_token = "at1"
        /\ access_token = "at2"
        /\ tool[p].name = "create_post"
        /\ op[p] = "request"
        /\ pre[p].access_token = "at2"
        /\ Len(calls[p]) = 1
        /\ calls[p][1].headers["Authorization"] = "Bearer at2"

\* the lines of a file as save_tokens_to_env reads them
LinesOf(file) == IF file.exists THEN FileLines(file.content) ELSE <<>>

\* the places where the i-th variable is set in a file
Occurrences(file, i) ==
    {n \in 1..Len(LinesOf(file)) :
        StartsWith(LinesOf(file)[n], <<VarNames[i], "=">>)}

\* the line sets one of the three variables
IsTokenLine(line) ==
    \E i \in 1..3 : StartsWith(line, <<VarNames[i], "=">>)

IsOtherLine(line) == ~IsTokenLine(line)

\* the lines that set none of the three variables, in their order
OtherLines(file) == SelectSeq(LinesOf(file), IsOtherLine)

\* C21: after save_tokens_to_env on a file that sets each of
\* LINKEDIN_ACCESS_TOKEN, LINKEDIN_REFRESH_TOKEN and LINKEDIN_ID_TOKEN at
\* most once, each of the three is set exactly once, to the new value, and
\* the other lines are the same lines in the same order; saving the same
\* tokens a second time leaves the file as it was.
C21_SaveReplacesOnceIdempotent ==
    /\ (/\ saved.done
        /\ \A i \in 1..3 : Cardinality(Occurrences(saved.before, i)) <= 1)
       => /\ env_file.exists
          /\ \A i \in 1..3 :
                /\ Cardinality(Occurrences(env_file, i)) = 1
                /\ \A n \in Occurrences(env_file, i) :
                      LinesOf(env_file)[n]
                          = <<VarNames[i], "=">>
                            \o TokenValue(saved.tokens, TokenKeys[i])
                /\ \A n \in Occurrences(saved.before, i) :
                      n \in Occurrences(env_file, i)
          /\ OtherLines(env_file) = OtherLines(saved.before)
    /\ saved.again => env_file = saved.before

\* a second save of the same tokens, on a file that had one of the
\* variables and other lines around it
C21_Witness ==
    /\ saved.again
    /\ saved.tokens = ("access_token" :> <<"b64", "=">>)
    /\ LinesOf(env_file) =
          << <<"#", "LINKEDIN_REFRESH_TOKEN", "=", "old">>,
             <<"LINKEDIN_ID_TOKEN", "=">>,
             <<>>,
             <<"LINKEDIN_ACCESS_TOKEN", "=", "b64", "=">>,
             <<"LINKEDIN_REFRESH_TOKEN", "=">> >>

====
